---- MODULE Spec2Model ----
(***************************************************************************)
(* Replay engine of account-transaction-parser.                            *)
(*                                                                         *)
(* src/src/lib.rs  : the library (process_transactions, write_stdout)      *)
(* src/src/main.rs : the binary, which repeats the same loop inline but    *)
(*                   unwraps every deserialized record                     *)
(*                                                                         *)
(* Decimal values are modelled by integers (their numeric value: Decimal's *)
(* equality is numeric, 1.0 = 1).  rust_decimal panics on overflow of its  *)
(* 96-bit mantissa; the amounts of the model stay far below that.          *)
(***************************************************************************)
EXTENDS Integers, Sequences, FiniteSets, TLC

VARIABLES
    engine,        \* "lib" (lib.rs process_transactions) or "main" (main.rs main)
    file,          \* the rows of the input file when it is fixed up front, else <<>>
    pos,           \* number of rows the reader has yielded so far
    accounts,      \* HashMap<u16, Account>
    transactions,  \* HashMap<u32, Transaction>: the Deposit/Withdrawal records by tx
    transaction,   \* the loop variable: the record applied in the last iteration
    status,        \* "running", "done" (rows written) or "panicked"
    output,        \* the rows written to stdout, in the order written
    run,           \* 1 for the first replay of the file, 2 for the second
    firstOutput,   \* the output of the first replay, kept for comparison
    snaps          \* the account map after each row of the fixed file (history)

vars == <<engine, file, pos, accounts, transactions, transaction, status,
          output, run, firstOutput, snaps>>

----------------------------------------------------------------------------
(* Bounds of the model *)

MaxAmount == 1      \* the amounts a streamed row may carry are 0..MaxAmount
MaxRecords == 3     \* rows a streamed reader yields
MaxFileLen == 4     \* rows of a fixed input file

(* Program constant: client is a u16 *)
U16Max == 65535

(* Two clients and two transaction identifiers: enough for a record of one *)
(* client to meet the tx of another and for a tx to be used twice.         *)
Clients == {1, 2}
TxIds == {1, 2}
Amounts == 0..MaxAmount

----------------------------------------------------------------------------
(* Option<T> and Result<T, E> *)

None == [some |-> FALSE]
Some(x) == [some |-> TRUE, val |-> x]

Ok(x) == [ok |-> TRUE, val |-> x]
Err == [ok |-> FALSE]

----------------------------------------------------------------------------
(* TransactionType: Deposit, Withdrawal, Dispute(Option<Box<Transaction>>), *)
(* Resolve(..), Chargeback(..)                                              *)

Deposit == [kind |-> "Deposit"]
Withdrawal == [kind |-> "Withdrawal"]
Dispute(r) == [kind |-> "Dispute", ref |-> r]
Resolve(r) == [kind |-> "Resolve", ref |-> r]
Chargeback(r) == [kind |-> "Chargeback", ref |-> r]

DisputeFamily == {"Dispute", "Resolve", "Chargeback"}
MoneyMovement == {"Deposit", "Withdrawal"}

(* struct Transaction *)
Transaction(ty, c, t, a) ==
    [transaction_type |-> ty, client |-> c, tx |-> t, amount |-> a]

(* No record is bound to the loop variable (before the first iteration, or *)
(* when the reader's item was an error).                                   *)
NoTransaction == Transaction([kind |-> "NoRecord"], 0, 0, None)

(* struct Account *)
Account(c, av, h, l) == [client |-> c, available |-> av, held |-> h, locked |-> l]

----------------------------------------------------------------------------
(* The fields of a csv row as the reader sees them *)

Num(v) == [t |-> "num", v |-> v]     \* a field holding the digits of v
Dec(v) == [t |-> "dec", v |-> v]     \* a field holding the decimal v
Empty == [t |-> "empty"]             \* an empty field
Garbage == [t |-> "garbage"]         \* a field that is no number

Row(ty, c, t, a) == [type |-> ty, client |-> c, tx |-> t, amount |-> a]

(* impl FromStr for TransactionType *)
(* Mutant: the tag of a deposit is matched without regard to case *)
from_str_nocase(s) ==
    CASE s \in {"deposit", "Deposit", "DEPOSIT"} -> Ok(Deposit)
      [] s = "withdrawal" -> Ok(Withdrawal)
      [] s = "dispute" -> Ok(Dispute(None))
      [] s = "resolve" -> Ok(Resolve(None))
      [] s = "chargeback" -> Ok(Chargeback(None))
      [] OTHER -> Err

from_str(s) ==
    CASE s = "deposit" -> Ok(Deposit)
      [] s = "withdrawal" -> Ok(Withdrawal)
      [] s = "dispute" -> Ok(Dispute(None))
      [] s = "resolve" -> Ok(Resolve(None))
      [] s = "chargeback" -> Ok(Chargeback(None))
      [] OTHER -> Err

(* serde's u16 for the client column *)
deserialize_client(f) ==
    IF f.t = "num" /\ f.v >= 0 /\ f.v <= U16Max THEN Ok(f.v) ELSE Err

(* serde's u32 for the tx column (the model's tx values stay far below 2^32) *)
deserialize_tx(f) ==
    IF f.t = "num" /\ f.v >= 0 THEN Ok(f.v) ELSE Err

(* serde's Option<Decimal> for the amount column: an empty field is None *)
deserialize_amount(f) ==
    CASE f.t = "empty" -> Ok(None)
      [] f.t = "dec" -> Ok(Some(f.v))
      [] OTHER -> Err

(* #[derive(Deserialize)] struct Transaction: one item of reader.deserialize() *)
deserialize(raw) ==
    LET ty == from_str(raw.type)
        c == deserialize_client(raw.client)
        t == deserialize_tx(raw.tx)
        a == deserialize_amount(raw.amount)
    IN  IF ty.ok /\ c.ok /\ t.ok /\ a.ok
        THEN Ok(Transaction(ty.val, c.val, t.val, a.val))
        ELSE Err

----------------------------------------------------------------------------
(* Mutant: an absent amount counts as one unit *)
amount_absent_one(t) == IF t.amount.some THEN t.amount.val ELSE 1

(* Transaction::amount: the amount, zero when absent *)
amount(t) == IF t.amount.some THEN t.amount.val ELSE 0

(* get_boxed_transaction: a copy of the ledger's record under tx, if any *)
get_boxed_transaction(tx, txs) ==
    IF tx \in DOMAIN txs THEN Some(txs[tx]) ELSE None

(* Mutant: the Resolve arm builds a Chargeback *)
link_transaction_miscopied(t, txs) ==
    CASE t.transaction_type.kind = "Dispute" ->
            [t EXCEPT !.transaction_type = Dispute(get_boxed_transaction(t.tx, txs))]
      [] t.transaction_type.kind = "Chargeback" ->
            [t EXCEPT !.transaction_type = Chargeback(get_boxed_transaction(t.tx, txs))]
      [] t.transaction_type.kind = "Resolve" ->
            [t EXCEPT !.transaction_type = Chargeback(get_boxed_transaction(t.tx, txs))]
      [] OTHER -> t

(* Transaction::link_transaction *)
link_transaction(t, txs) ==
    CASE t.transaction_type.kind = "Dispute" ->
            [t EXCEPT !.transaction_type = Dispute(get_boxed_transaction(t.tx, txs))]
      [] t.transaction_type.kind = "Chargeback" ->
            [t EXCEPT !.transaction_type = Chargeback(get_boxed_transaction(t.tx, txs))]
      [] t.transaction_type.kind = "Resolve" ->
            [t EXCEPT !.transaction_type = Resolve(get_boxed_transaction(t.tx, txs))]
      [] OTHER -> t

(* Mutant: total leaves held out *)
total_available(a) == a.available

(* Account::total *)
total(a) == a.available + a.held

(* Account::update_transaction, the Deposit arm *)
apply_deposit(a, t) == [a EXCEPT !.available = @ + amount(t)]

(* Mutant: a withdrawal beyond the available funds is rejected *)
apply_withdrawal_checked(a, t) ==
    IF a.available >= amount(t)
    THEN [a EXCEPT !.available = @ - amount(t)]
    ELSE a

(* Account::update_transaction, the Withdrawal arm *)
apply_withdrawal(a, t) == [a EXCEPT !.available = @ - amount(t)]

(* Mutant: a dispute that debits available without holding the funds *)
apply_dispute_nohold(a, ref) ==
    IF ref.some THEN [a EXCEPT !.available = @ - amount(ref.val)] ELSE a

(* Account::update_transaction, the Dispute arm *)
apply_dispute(a, ref) ==
    IF ref.some
    THEN [a EXCEPT !.held = @ + amount(ref.val),
                   !.available = @ - amount(ref.val)]
    ELSE a

(* Mutant: a resolve that releases the held funds without giving them back *)
apply_resolve_noavail(a, ref) ==
    IF ref.some THEN [a EXCEPT !.held = @ - amount(ref.val)] ELSE a

(* Mutant: a resolve that also lifts the lock *)
apply_resolve_unlock(a, ref) ==
    IF ref.some
    THEN [a EXCEPT !.held = @ - amount(ref.val),
                   !.available = @ + amount(ref.val),
                   !.locked = FALSE]
    ELSE a

(* Account::update_transaction, the Resolve arm *)
(* Mutant: a resolve releases only funds that are held *)
apply_resolve_guarded(a, ref) ==
    IF ref.some /\ a.held >= amount(ref.val)
    THEN [a EXCEPT !.held = @ - amount(ref.val),
                   !.available = @ + amount(ref.val)]
    ELSE a

apply_resolve(a, ref) ==
    IF ref.some
    THEN [a EXCEPT !.held = @ - amount(ref.val),
                   !.available = @ + amount(ref.val)]
    ELSE a

(* Mutant: a chargeback that locks the account even with no reference *)
apply_chargeback_lockalways(a, ref) ==
    IF ref.some
    THEN [a EXCEPT !.held = @ - amount(ref.val),
                   !.available = @ - amount(ref.val),
                   !.locked = TRUE]
    ELSE [a EXCEPT !.locked = TRUE]

(* Mutant: a chargeback that forgets to lock the account *)
apply_chargeback_nolock(a, ref) ==
    IF ref.some
    THEN [a EXCEPT !.held = @ - amount(ref.val),
                   !.available = @ - amount(ref.val)]
    ELSE a

(* Mutant: a chargeback that only releases the held funds *)
apply_chargeback_heldonly(a, ref) ==
    IF ref.some
    THEN [a EXCEPT !.held = @ - amount(ref.val), !.locked = TRUE]
    ELSE a

(* Account::update_transaction, the Chargeback arm *)
apply_chargeback(a, ref) ==
    IF ref.some
    THEN [a EXCEPT !.held = @ - amount(ref.val),
                   !.available = @ - amount(ref.val),
                   !.locked = TRUE]
    ELSE a

(* Account::update_transaction *)
(* Mutant: a linked Dispute holds the amount the Dispute itself carries *)
update_transaction_ownamount(a, t) ==
    LET ty == t.transaction_type IN
    CASE ty.kind = "Deposit" -> apply_deposit(a, t)
      [] ty.kind = "Withdrawal" -> apply_withdrawal(a, t)
      [] ty.kind = "Dispute" -> apply_dispute(a, IF ty.ref.some THEN Some(t) ELSE None)
      [] ty.kind = "Resolve" -> apply_resolve(a, ty.ref)
      [] ty.kind = "Chargeback" -> apply_chargeback(a, ty.ref)

update_transaction(a, t) ==
    LET ty == t.transaction_type IN
    CASE ty.kind = "Deposit" -> apply_deposit(a, t)
      [] ty.kind = "Withdrawal" -> apply_withdrawal(a, t)
      [] ty.kind = "Dispute" -> apply_dispute(a, ty.ref)
      [] ty.kind = "Resolve" -> apply_resolve(a, ty.ref)
      [] ty.kind = "Chargeback" -> apply_chargeback(a, ty.ref)

(* The match of the loop body: a Deposit/Withdrawal is inserted in the      *)
(* ledger (insert overwrites), a dispute-family record is left out of it.   *)
(* Mutant: every record is stored in the ledger, whatever its kind *)
ledger_insert_all(t, txs) ==
    [k \in DOMAIN txs \cup {t.tx} |-> IF k = t.tx THEN t ELSE txs[k]]

(* Mutant: a tx already in the ledger keeps its first record *)
ledger_insert_keepfirst(t, txs) ==
    IF t.transaction_type.kind \in MoneyMovement /\ t.tx \notin DOMAIN txs
    THEN [k \in DOMAIN txs \cup {t.tx} |-> IF k = t.tx THEN t ELSE txs[k]]
    ELSE txs

ledger_insert(t, txs) ==
    IF t.transaction_type.kind \in MoneyMovement
    THEN [k \in DOMAIN txs \cup {t.tx} |-> IF k = t.tx THEN t ELSE txs[k]]
    ELSE txs

(* The record as applied: dispute-family records are linked first *)
linked(t, txs) ==
    IF t.transaction_type.kind \in DisputeFamily THEN link_transaction(t, txs) ELSE t

(* Mutant: the account is created with a default client field *)
entry_or_insert_default(accs, c) ==
    IF c \in DOMAIN accs
    THEN accs
    ELSE [k \in DOMAIN accs \cup {c} |->
            IF k = c THEN Account(0, 0, 0, FALSE) ELSE accs[k]]

(* accounts.entry(client).or_insert(Account { client, 0, 0, false }) *)
entry_or_insert(accs, c) ==
    IF c \in DOMAIN accs
    THEN accs
    ELSE [k \in DOMAIN accs \cup {c} |->
            IF k = c THEN Account(c, 0, 0, FALSE) ELSE accs[k]]

(* Mutant: a record for a locked account is dropped *)
apply_record_lockcheck(accs, t) ==
    LET withEntry == entry_or_insert(accs, t.client)
    IN  IF withEntry[t.client].locked
        THEN withEntry
        ELSE [withEntry EXCEPT ![t.client] = update_transaction(@, t)]

(* Mutant: a linked dispute-family record is applied to the account of the *)
(* referenced record's client instead of its own                           *)
apply_record_refclient(accs, t) ==
    LET ty == t.transaction_type
        c == IF ty.kind \in DisputeFamily /\ ty.ref.some
             THEN ty.ref.val.client
             ELSE t.client
        withEntry == entry_or_insert(accs, c)
    IN  [withEntry EXCEPT ![c] = update_transaction(@, t)]

(* One iteration of the loop on a deserialized record: the new account map *)
apply_record(accs, t) ==
    LET withEntry == entry_or_insert(accs, t.client)
    IN  [withEntry EXCEPT ![t.client] = update_transaction(@, t)]

(* One iteration of the loop of process_transactions on the reader's item: *)
(* flatten() drops an Err item                                             *)
loop_body(st, raw) ==
    LET r == deserialize(raw) IN
    IF r.ok
    THEN LET lt == linked(r.val, st.transactions)
         IN  [accounts |-> apply_record(st.accounts, lt),
              transactions |-> ledger_insert(r.val, st.transactions)]
    ELSE st

(* process_transactions as a function of the rows: the two maps after the  *)
(* last row                                                                *)
RECURSIVE process_transactions(_)
process_transactions(rows) ==
    IF Len(rows) = 0
    THEN [accounts |-> <<>>, transactions |-> <<>>]
    ELSE loop_body(process_transactions(SubSeq(rows, 1, Len(rows) - 1)),
                   rows[Len(rows)])

----------------------------------------------------------------------------
(* Output: impl Serialize for Account and write_stdout *)

Header == <<"client", "available", "held", "locked", "balance">>

(* impl Serialize for Account: the fields in the order they are serialized *)
serialize(a) == <<a.client, a.available, a.held, a.locked, total(a)>>

(* The orders in which accounts.values() may enumerate the map: HashMap's  *)
(* iteration order depends on the per-instance RandomState and is not      *)
(* specified, so it is any order of the keys.                              *)
Orders(accs) ==
    LET D == DOMAIN accs
        n == Cardinality(D)
    IN  {o \in [1..n -> D] : \A i, j \in 1..n : o[i] = o[j] => i = j}

(* Mutant: the last row stays in the writer's buffer *)
write_stdout_unflushed(accs, order) ==
    IF Len(order) = 0
    THEN <<>>
    ELSE <<Header>> \o [i \in 1..(Len(order) - 1) |-> serialize(accs[order[i]])]

(* write_stdout: the header (written with the first row), then one row per *)
(* account in iteration order                                              *)
write_stdout(accs, order) ==
    IF Len(order) = 0
    THEN <<>>
    ELSE <<Header>> \o [i \in 1..Len(order) |-> serialize(accs[order[i]])]

----------------------------------------------------------------------------
(* The rows a reader can yield *)

AmountFields == {Empty} \cup {Dec(v) : v \in Amounts}

(* Deposit and withdrawal rows, with every amount field *)
MoneyRows ==
    {Row(ty, Num(c), Num(t), a) :
        ty \in {"deposit", "withdrawal"}, c \in Clients, t \in TxIds,
        a \in AmountFields}

(* Dispute-family rows: their amount column is normally empty; one value   *)
(* stands for the rows that do carry an amount.                            *)
DisputeRows ==
    {Row(ty, Num(c), Num(t), a) :
        ty \in {"dispute", "resolve", "chargeback"}, c \in Clients, t \in TxIds,
        a \in {Empty, Dec(MaxAmount)}}

WellFormedRows == MoneyRows \cup DisputeRows

(* One row per way of being malformed: an unknown tag, a tag in another    *)
(* case, a client or tx that is no number, a client beyond u16, an amount  *)
(* that is no decimal.                                                     *)
MalformedRows ==
    { Row("bogus", Num(1), Num(1), Dec(1)),
      Row("Deposit", Num(1), Num(1), Dec(1)),
      Row("deposit", Garbage, Num(1), Dec(1)),
      Row("deposit", Num(U16Max + 1), Num(1), Dec(1)),
      Row("deposit", Num(1), Garbage, Dec(1)),
      Row("deposit", Num(1), Num(1), Garbage) }

Rows == WellFormedRows \cup MalformedRows

----------------------------------------------------------------------------
(* The loop of process_transactions (lib.rs) and of main (main.rs) *)

(* The reader's item is Ok(record): the body of the loop *)
Deserialized(raw) ==
    /\ status = "running"
    /\ deserialize(raw).ok
    /\ LET t == deserialize(raw).val
           lt == linked(t, transactions)
       IN  /\ transactions' = ledger_insert(t, transactions)
           /\ transaction' = lt
           /\ accounts' = apply_record(accounts, lt)
    /\ pos' = pos + 1
    /\ UNCHANGED <<engine, status, output>>

(* lib.rs: reader.deserialize().flatten() drops an Err item *)
Skipped(raw) ==
    /\ status = "running"
    /\ engine = "lib"
    /\ ~deserialize(raw).ok
    /\ pos' = pos + 1
    /\ transaction' = NoTransaction
    /\ UNCHANGED <<engine, accounts, transactions, status, output>>

(* main.rs: record.unwrap() panics on an Err item; nothing is written *)
Panicked(raw) ==
    /\ status = "running"
    /\ engine = "main"
    /\ ~deserialize(raw).ok
    /\ pos' = pos + 1
    /\ status' = "panicked"
    /\ transaction' = NoTransaction
    /\ UNCHANGED <<engine, accounts, transactions, output>>

(* lib.rs: the reader is exhausted and process_transactions returns the map *)
Returned ==
    /\ status = "running"
    /\ engine = "lib"
    /\ status' = "done"
    /\ UNCHANGED <<engine, pos, accounts, transactions, transaction, output>>

(* main.rs: the reader is exhausted and the rows are written in iteration  *)
(* order (lib.rs write_stdout is the same loop)                            *)
Written ==
    /\ status = "running"
    /\ engine = "main"
    /\ \E order \in Orders(accounts) : output' = write_stdout(accounts, order)
    /\ status' = "done"
    /\ UNCHANGED <<engine, pos, accounts, transactions, transaction>>

----------------------------------------------------------------------------------------------------------------------------------------
(* Spec: process_transactions (lib.rs) on a reader that yields any rows,   *)
(* up to MaxRecords of them                                                *)

Fresh ==
    /\ pos = 0
    /\ accounts = <<>>
    /\ transactions = <<>>
    /\ transaction = NoTransaction
    /\ status = "running"
    /\ output = <<>>

Init ==
    /\ engine = "lib"
    /\ file = <<>>
    /\ run = 1
    /\ firstOutput = <<>>
    /\ snaps = <<>>
    /\ Fresh

Fixed == UNCHANGED <<file, run, firstOutput, snaps>>

ReadRecord == \E raw \in Rows : pos < MaxRecords /\ Deserialized(raw) /\ Fixed

SkipRecord == \E raw \in Rows : pos < MaxRecords /\ Skipped(raw) /\ Fixed

Next == ReadRecord \/ SkipRecord

Spec == Init /\ [][Next]_vars

----------------------------------------------------------------------------
(* Input files fixed up front *)

Files(rows, n) == UNION {[1..k -> rows] : k \in 0..n}

(* The account map after the first i rows of the file *)
After(i) == IF i = 0 THEN <<>> ELSE snaps[i]

(* The account of client c in map accs, or what or_insert would create *)
AccountOf(accs, c) ==
    IF c \in DOMAIN accs THEN accs[c] ELSE Account(c, 0, 0, FALSE)

FileRead ==
    /\ pos < Len(file)
    /\ Deserialized(file[pos + 1])
    /\ snaps' = Append(snaps, accounts')
    /\ UNCHANGED <<file, run, firstOutput>>

FileSkip ==
    /\ pos < Len(file)
    /\ Skipped(file[pos + 1])
    /\ snaps' = Append(snaps, accounts')
    /\ UNCHANGED <<file, run, firstOutput>>

FilePanic ==
    /\ pos < Len(file)
    /\ Panicked(file[pos + 1])
    /\ Fixed

FileReturn == pos = Len(file) /\ Returned /\ Fixed

FileWrite == pos = Len(file) /\ Written /\ Fixed

(* A second, fresh run of the program on the same file *)
Restart ==
    /\ status = "done"
    /\ run = 1
    /\ run' = 2
    /\ firstOutput' = output
    /\ snaps' = <<>>
    /\ pos' = 0
    /\ accounts' = <<>>
    /\ transactions' = <<>>
    /\ transaction' = NoTransaction
    /\ status' = "running"
    /\ output' = <<>>
    /\ UNCHANGED <<engine, file>>

----------------------------------------------------------------------------
(* SpecFile: process_transactions (lib.rs) on a fixed file whose rows are  *)
(* those of the documented scenarios, in any order and number              *)

D10 == Row("deposit", Num(1), Num(1), Dec(10))
D5 == Row("deposit", Num(1), Num(2), Dec(5))
D1 == Row("deposit", Num(1), Num(1), Dec(1))
D2 == Row("deposit", Num(2), Num(2), Dec(2))
W1 == Row("withdrawal", Num(2), Num(2), Dec(1))
Disp11 == Row("dispute", Num(1), Num(1), Empty)
Res11 == Row("resolve", Num(1), Num(1), Empty)
Cb11 == Row("chargeback", Num(1), Num(1), Empty)
Disp21 == Row("dispute", Num(2), Num(1), Empty)
Bogus == Row("bogus", Num(1), Num(1), Dec(1))

ScenarioRows == {D10, D5, D1, D2, W1, Disp11, Res11, Cb11, Disp21, Bogus}

InitFile ==
    /\ engine = "lib"
    /\ file \in Files(ScenarioRows, MaxFileLen)
    /\ run = 1
    /\ firstOutput = <<>>
    /\ snaps = <<>>
    /\ Fresh

NextFile == FileRead \/ FileSkip \/ FileReturn

SpecFile == InitFile /\ [][NextFile]_vars

----------------------------------------------------------------------------
(* SpecReuse: process_transactions on a file of one client's rows where    *)
(* tx 1 is used by two deposits and some tags are no operation kind        *)

Capitalised == Row("Deposit", Num(1), Num(2), Dec(5))
W3 == Row("withdrawal", Num(1), Num(1), Dec(3))

ReuseRows == {D10, D1, W3, Disp11, Res11, Cb11, Bogus, Capitalised}

InitReuse ==
    /\ engine = "lib"
    /\ file \in Files(ReuseRows, MaxFileLen)
    /\ run = 1
    /\ firstOutput = <<>>
    /\ snaps = <<>>
    /\ Fresh

NextReuse == FileRead \/ FileSkip \/ FileReturn

SpecReuse == InitReuse /\ [][NextReuse]_vars

----------------------------------------------------------------------------
(* SpecMain: the binary (main.rs) run twice on a fixed file *)

MainRows == {D1, D2, Disp11, W1, Bogus}

InitMain ==
    /\ engine = "main"
    /\ file \in Files(MainRows, MaxFileLen)
    /\ run = 1
    /\ firstOutput = <<>>
    /\ snaps = <<>>
    /\ Fresh

NextMain == FileRead \/ FilePanic \/ FileWrite \/ Restart

SpecMain == InitMain /\ [][NextMain]_vars

----------------------------------------------------------------------------
(* Helpers of the properties *)

(* The record of a well-formed row *)
RecordOf(raw) == deserialize(raw).val

(* No well-formed row before row i is of client c *)
FreshBefore(c, i) ==
    \A j \in 1..(i - 1) :
        deserialize(file[j]).ok => RecordOf(file[j]).client # c

(* The loop has just applied a record (the step is no stuttering step and  *)
(* the reader's item was no error)                                         *)
Applied == pos' = pos + 1 /\ transaction' # NoTransaction

Kind(t) == t.transaction_type.kind

----------------------------------------------------------------------------
(* C1 as stated: for a fresh client c, the rows Deposit(10) with tx t,     *)
(* Dispute(t), Chargeback(t) leave c with available = 0, held = 10 after   *)
(* the dispute and with available = 0, held = 0, locked = true after the   *)
(* chargeback.  The code's chargeback debits available as well.            *)

C1_Rows(i, c, t) ==
    /\ pos = i + 2
    /\ file[i] = Row("deposit", Num(c), Num(t), Dec(10))
    /\ file[i + 1] = Row("dispute", Num(c), Num(t), Empty)
    /\ file[i + 2] = Row("chargeback", Num(c), Num(t), Empty)
    /\ FreshBefore(c, i)

C1_ChargebackAfterDispute ==
    \A i \in 1..Len(file), c \in Clients, t \in TxIds :
        C1_Rows(i, c, t) =>
            /\ snaps[i + 1][c] = Account(c, 0, 10, FALSE)
            /\ accounts[c] = Account(c, 0, 0, TRUE)

(* C1 as amended: the same rows leave c with available = -10, held = 0,   *)
(* locked = true (available = 0, held = 10 after the dispute).             *)
C1_ChargebackDebitsAvailable ==
    \A i \in 1..Len(file), c \in Clients, t \in TxIds :
        C1_Rows(i, c, t) =>
            /\ snaps[i + 1][c] = Account(c, 0, 10, FALSE)
            /\ accounts[c] = Account(c, -10, 0, TRUE)

C1_Witness ==
    \E i \in 2..Len(file), c \in Clients, t \in TxIds : C1_Rows(i, c, t)

----------------------------------------------------------------------------
(* C2: a Chargeback whose tx is in the ledger with a record of amount a    *)
(* takes a from held and a from available of its client's account and      *)
(* locks it, whatever the account's state; total drops by 2a.              *)

C2_Chargeback ==
    [][(/\ Applied
        /\ Kind(transaction') = "Chargeback"
        /\ transaction'.tx \in DOMAIN transactions)
       => LET c == transaction'.client
              a == amount(transactions[transaction'.tx])
              old == AccountOf(accounts, c)
              new == accounts'[c]
          IN  /\ new.held = old.held - a
              /\ new.available = old.available - a
              /\ new.locked = TRUE
              /\ total(new) = total(old) - 2 * a]_vars

C2_Witness ==
    /\ Kind(transaction) = "Chargeback"
    /\ transaction.transaction_type.ref.some
    /\ amount(transaction.transaction_type.ref.val) > 0
    /\ accounts[transaction.client].locked
    /\ accounts[transaction.client].held < 0

----------------------------------------------------------------------------
(* C3: a Dispute of tx t by client c followed by a Resolve of t by c, t    *)
(* being in the ledger with a record of amount a: the Dispute takes a from *)
(* available and adds it to held, the Resolve restores both; locked never  *)
(* changes.                                                                *)

C3_Rows(i, c, t) ==
    /\ i >= 1
    /\ pos = i + 1
    /\ deserialize(file[i]).ok
    /\ deserialize(file[i + 1]).ok
    /\ RecordOf(file[i]) = Transaction(Dispute(None), c, t, RecordOf(file[i]).amount)
    /\ RecordOf(file[i + 1]) = Transaction(Resolve(None), c, t, RecordOf(file[i + 1]).amount)
    /\ t \in DOMAIN transactions

C3_DisputeResolveNeutral ==
    \A i \in 1..Len(file), c \in Clients, t \in TxIds :
        C3_Rows(i, c, t) =>
            LET a == amount(transactions[t])
                before == AccountOf(After(i - 1), c)
                mid == snaps[i][c]
                now == accounts[c]
            IN  /\ mid.available = before.available - a
                /\ mid.held = before.held + a
                /\ mid.locked = before.locked
                /\ now.available = before.available
                /\ now.held = before.held
                /\ now.locked = before.locked

C3_Witness ==
    \E i \in 1..Len(file), c \in Clients, t \in TxIds :
        /\ C3_Rows(i, c, t)
        /\ amount(transactions[t]) = 10
        /\ AccountOf(After(i - 1), c) = Account(c, 10, 0, FALSE)
        /\ snaps[i][c] = Account(c, 0, 10, FALSE)

----------------------------------------------------------------------------
(* C4: a Dispute, Resolve or Chargeback whose tx is not in the ledger when *)
(* it is processed changes no balance and no lock of any account (its      *)
(* client's account is what or_insert finds or creates), leaves the ledger *)
(* as it is and raises no error.                                           *)

C4_DanglingIsNoOp ==
    [][(/\ Applied
        /\ Kind(transaction') \in DisputeFamily
        /\ transaction'.tx \notin DOMAIN transactions)
       => LET c == transaction'.client
          IN  /\ accounts'[c] = AccountOf(accounts, c)
              /\ \A k \in DOMAIN accounts : accounts'[k] = accounts[k]
              /\ DOMAIN accounts' = DOMAIN accounts \cup {c}
              /\ transactions' = transactions
              /\ status' = "running"]_vars

C4_Witness ==
    /\ Kind(transaction) = "Chargeback"
    /\ ~transaction.transaction_type.ref.some
    /\ transaction.client \in DOMAIN accounts
    /\ accounts[transaction.client].available > 0
    /\ ~accounts[transaction.client].locked

----------------------------------------------------------------------------
(* C5: a malformed row never aborts the replay, and the final account map  *)
(* is that of the file without its malformed rows.                         *)

WellFormed(raw) == deserialize(raw).ok

C5_ContinueOnError ==
    /\ status # "panicked"
    /\ status = "done" =>
          accounts = process_transactions(SelectSeq(file, WellFormed)).accounts

----------------------------------------------------------------------------
(* C6: the rows deposit(1,1,1.0), deposit(2,2,2.0), dispute(1,1),          *)
(* withdrawal(2,2,1.0) yield exactly two accounts: client 1 with           *)
(* available 0, held 1, total 1, unlocked, and client 2 with available 1,  *)
(* held 0, total 1, unlocked.                                              *)

C6_File == <<D1, D2, Disp11, W1>>

C6_EndToEnd ==
    (file = C6_File /\ status = "done") =>
        /\ DOMAIN accounts = {1, 2}
        /\ accounts[1] = Account(1, 0, 1, FALSE)
        /\ total(accounts[1]) = 1
        /\ accounts[2] = Account(2, 1, 0, FALSE)
        /\ total(accounts[2]) = 1

C6_Witness == file = C6_File /\ status = "done" /\ pos = 4

----------------------------------------------------------------------------
(* C7 as stated: the second run of the program on the same file writes     *)
(* exactly the output of the first run, row for row.                       *)

C7_ByteIdentical ==
    (run = 2 /\ status = "done") => output = firstOutput

(* C7 as amended: the two runs write the same header and the same rows,    *)
(* one per account; the order of the rows may differ.                      *)

RowSet(out) == {out[i] : i \in 2..Len(out)}

C7_SameRows ==
    (run = 2 /\ status = "done") =>
        /\ Len(output) = Len(firstOutput)
        /\ Len(output) > 0 => output[1] = firstOutput[1]
        /\ RowSet(output) = RowSet(firstOutput)
        /\ Cardinality(RowSet(output)) = Cardinality(DOMAIN accounts)

C7_Witness ==
    /\ run = 2
    /\ status = "done"
    /\ Len(output) = 3
    /\ output # firstOutput

----------------------------------------------------------------------------
(* C8: after any prefix of the file the account map holds exactly the      *)
(* clients of the well-formed rows read so far, each under its own key;    *)
(* an account is created by the first record of its client, with zero      *)
(* balances and unlocked before that record is applied; no account is ever *)
(* removed.                                                                *)

SeenClients(n) ==
    {RecordOf(file[j]).client : j \in {k \in 1..n : WellFormed(file[k])}}

C8_AccountPerClient ==
    /\ DOMAIN accounts = SeenClients(pos)
    /\ \A c \in DOMAIN accounts : accounts[c].client = c
    /\ \A i \in 1..Len(snaps) : DOMAIN After(i - 1) \subseteq DOMAIN snaps[i]
    /\ (/\ pos >= 1
        /\ transaction # NoTransaction
        /\ transaction.client \notin DOMAIN After(pos - 1))
       => accounts[transaction.client] =
             update_transaction(Account(transaction.client, 0, 0, FALSE), transaction)

C8_Witness ==
    /\ pos = 3
    /\ file[1] = Bogus
    /\ file[2] = D10
    /\ file[3] = Disp21
    /\ transaction.transaction_type.ref.some
    /\ DOMAIN accounts = {1, 2}
    /\ accounts[2] = Account(2, -10, 10, FALSE)

(* A client that appears only in a dangling dispute-family record still    *)
(* gets its account.                                                       *)
C8_WitnessDangling ==
    /\ pos = 2
    /\ file[1] = Bogus
    /\ file[2] = Disp21
    /\ DOMAIN accounts = {2}
    /\ accounts[2] = Account(2, 0, 0, FALSE)

----------------------------------------------------------------------------
(* C9: when all the records of client c read so far are Deposits, c's      *)
(* available is the sum of their amounts and its held is 0, whatever the   *)
(* records of the other clients are.                                       *)

OnlyDeposits(c, n) ==
    \A j \in 1..n :
        (WellFormed(file[j]) /\ RecordOf(file[j]).client = c)
            => Kind(RecordOf(file[j])) = "Deposit"

RECURSIVE DepositSum(_, _)
DepositSum(c, n) ==
    IF n = 0
    THEN 0
    ELSE DepositSum(c, n - 1)
         + (IF WellFormed(file[n]) /\ RecordOf(file[n]).client = c
               /\ Kind(RecordOf(file[n])) = "Deposit"
            THEN amount(RecordOf(file[n]))
            ELSE 0)

C9_DepositsAccumulate ==
    \A c \in Clients :
        (c \in SeenClients(pos) /\ OnlyDeposits(c, pos)) =>
            /\ accounts[c].available = DepositSum(c, pos)
            /\ accounts[c].held = 0

(* Deposit(10), Deposit(5) of client 1 with a dispute of client 2 on       *)
(* client 1's tx in between                                                *)
C9_Witness ==
    /\ pos = 4
    /\ file = <<D10, Disp21, D5, W1>>
    /\ accounts[1].available = 15
    /\ accounts[2].held = 10

----------------------------------------------------------------------------
(* C10: an account that is locked stays locked: no record of the replay    *)
(* sets locked back to false or removes the account.                       *)

C10_LockIsPermanent ==
    [][\A c \in DOMAIN accounts :
          accounts[c].locked => (c \in DOMAIN accounts' /\ accounts'[c].locked)]_vars

(* A record other than a chargeback has been applied to a locked account *)
C10_Witness ==
    /\ Kind(transaction) \in {"Deposit", "Withdrawal", "Dispute", "Resolve"}
    /\ transaction.client \in DOMAIN accounts
    /\ accounts[transaction.client].locked

----------------------------------------------------------------------------
(* C11: a record applied to a locked account changes available and held    *)
(* exactly as it would change them were the account unlocked; a locked     *)
(* account still receives deposits and loses withdrawals.                  *)

C11_NoLockCheck ==
    [][(/\ Applied
        /\ transaction'.client \in DOMAIN accounts
        /\ accounts[transaction'.client].locked)
       => LET c == transaction'.client
              old == accounts[c]
              twin == update_transaction([old EXCEPT !.locked = FALSE], transaction')
              new == accounts'[c]
          IN  /\ new.available = twin.available
              /\ new.held = twin.held
              /\ Kind(transaction') = "Deposit" =>
                    new.available = old.available + amount(transaction')
              /\ Kind(transaction') = "Withdrawal" =>
                    new.available = old.available - amount(transaction')]_vars

(* A deposit of a positive amount has reached a locked account *)
C11_Witness ==
    /\ Kind(transaction) = "Deposit"
    /\ amount(transaction) > 0
    /\ accounts[transaction.client].locked
    /\ accounts[transaction.client].available > 0

----------------------------------------------------------------------------
(* C12: from_str maps the tags deposit, withdrawal, dispute, resolve and   *)
(* chargeback, spelled exactly so, to Deposit, Withdrawal, Dispute,        *)
(* Resolve and Chargeback, the last three with no reference; every other   *)
(* tag is an error, and a row with such a tag yields no record: the replay *)
(* passes over it.                                                         *)

C12_Tags ==
    {"deposit", "withdrawal", "dispute", "resolve", "chargeback",
     "Deposit", "DEPOSIT", "Dispute", "CHARGEBACK", "deposits", "bogus", ""}

C12_KindOf(s) ==
    CASE s = "deposit" -> "Deposit"
      [] s = "withdrawal" -> "Withdrawal"
      [] s = "dispute" -> "Dispute"
      [] s = "resolve" -> "Resolve"
      [] s = "chargeback" -> "Chargeback"
      [] OTHER -> "none"

C12_Classification ==
    /\ \A s \in C12_Tags :
          IF C12_KindOf(s) = "none"
          THEN from_str(s) = Err
          ELSE /\ from_str(s).ok
               /\ from_str(s).val.kind = C12_KindOf(s)
               /\ from_str(s).val.kind \in DisputeFamily
                     => from_str(s).val.ref = None
               /\ from_str(s).val.kind \in MoneyMovement
                     => DOMAIN from_str(s).val = {"kind"}
    /\ \A raw \in MalformedRows \cup ReuseRows :
          C12_KindOf(raw.type) = "none" => ~deserialize(raw).ok
    /\ pos >= 1 =>
          IF WellFormed(file[pos])
          THEN Kind(transaction) = C12_KindOf(file[pos].type)
          ELSE transaction = NoTransaction /\ accounts = After(pos - 1)

(* A row tagged "Deposit" has been passed over after a deposit was applied *)
C12_Witness ==
    /\ pos = 2
    /\ file[1] = D10
    /\ file[2] = Capitalised
    /\ from_str(file[2].type) = Err
    /\ transaction = NoTransaction
    /\ accounts[1].available = 10

----------------------------------------------------------------------------
(* C13: link_transaction gives a Dispute, Resolve or Chargeback record r   *)
(* a reference equal to the ledger's record under r.tx when there is one   *)
(* and no reference otherwise, keeps r's kind, client, tx and amount, and  *)
(* returns a Deposit or Withdrawal as it is; the ledger is only read.      *)

C13_Records == {RecordOf(raw) : raw \in WellFormedRows}

C13_Linking ==
    /\ \A r \in C13_Records :
          LET l == link_transaction(r, transactions)
          IN  IF Kind(r) \in DisputeFamily
              THEN /\ Kind(l) = Kind(r)
                   /\ l.client = r.client
                   /\ l.tx = r.tx
                   /\ l.amount = r.amount
                   /\ r.tx \in DOMAIN transactions
                         => l.transaction_type.ref = Some(transactions[r.tx])
                   /\ r.tx \notin DOMAIN transactions
                         => l.transaction_type.ref = None
              ELSE l = r
    /\ Kind(transaction) \in DisputeFamily =>
          transaction.transaction_type.ref =
              get_boxed_transaction(transaction.tx, transactions)

(* A Resolve that carries an amount of its own has been linked to the      *)
(* ledger's record of another client                                       *)
C13_Witness ==
    /\ Kind(transaction) = "Resolve"
    /\ transaction.amount.some
    /\ transaction.transaction_type.ref.some
    /\ transaction.transaction_type.ref.val = transactions[transaction.tx]
    /\ transaction.transaction_type.ref.val.client # transaction.client
    /\ amount(transaction.transaction_type.ref.val) > 0

----------------------------------------------------------------------------
(* C14 as stated: the output names and orders its columns client,          *)
(* available, held, total, locked, and each row holds an account's fields  *)
(* in that order, total being available + held.  The code serializes       *)
(* locked fourth and the sum fifth, under the name balance.                *)

C14_Columns == <<"client", "available", "held", "total", "locked">>

C14_RowLayout ==
    (status = "done" /\ Len(output) > 0) =>
        /\ output[1] = C14_Columns
        /\ \A i \in 2..Len(output) :
              \E c \in DOMAIN accounts :
                  output[i] = <<c, accounts[c].available, accounts[c].held,
                                total(accounts[c]), accounts[c].locked>>

----------------------------------------------------------------------------
(* C15: after every record, every account's total is its available plus    *)
(* its held; an account stores client, available, held and locked only,    *)
(* and the total that is written is computed from the two balances when    *)
(* the row is serialized.                                                  *)

C15_TotalOnDemand ==
    /\ \A c \in DOMAIN accounts :
          /\ DOMAIN accounts[c] = {"client", "available", "held", "locked"}
          /\ total(accounts[c]) = accounts[c].available + accounts[c].held
    /\ \A i \in 1..Len(snaps) : \A c \in DOMAIN snaps[i] :
          total(snaps[i][c]) = snaps[i][c].available + snaps[i][c].held
    /\ \A i \in 2..Len(output) :
          /\ output[i][5] = output[i][2] + output[i][3]
          /\ output[i][5] = total(accounts[output[i][1]])

(* A row has been written for an account with funds both available and    *)
(* held                                                                    *)
C15_Witness ==
    /\ status = "done"
    /\ \E i \in 2..Len(output) :
          /\ output[i][2] = 1
          /\ output[i][3] = 1
          /\ output[i][5] = 2

----------------------------------------------------------------------------
(* C16: a Withdrawal of amount a takes a from available and leaves held    *)
(* and locked as they are, whatever the available funds: available and     *)
(* total may become negative, and no withdrawal is rejected.               *)

C16_WithdrawalUnconditional ==
    [][(Applied /\ Kind(transaction') = "Withdrawal")
       => LET c == transaction'.client
              old == AccountOf(accounts, c)
              new == accounts'[c]
          IN  /\ new.available = old.available - amount(transaction')
              /\ new.held = old.held
              /\ new.locked = old.locked
              /\ total(new) = total(old) - amount(transaction')
              /\ status' = "running"]_vars

(* A withdrawal has overdrawn an account that held nothing *)
C16_Witness ==
    /\ Kind(transaction) = "Withdrawal"
    /\ amount(transaction) > 0
    /\ accounts[transaction.client].available < 0
    /\ accounts[transaction.client].held = 0
    /\ total(accounts[transaction.client]) < 0

----------------------------------------------------------------------------
(* C17: every entry of the ledger is a Deposit or a Withdrawal stored      *)
(* under its own tx; no step removes a key; a Dispute, Resolve or          *)
(* Chargeback leaves the ledger as it is; the reference of a linked record *)
(* is a Deposit or a Withdrawal.                                           *)

C17_LedgerIndex ==
    [][/\ \A k \in DOMAIN transactions' :
             /\ transactions'[k].tx = k
             /\ Kind(transactions'[k]) \in MoneyMovement
       /\ DOMAIN transactions \subseteq DOMAIN transactions'
       /\ (Applied /\ Kind(transaction') \in DisputeFamily)
             => transactions' = transactions
       /\ (Applied /\ Kind(transaction') \in MoneyMovement)
             => /\ transactions'[transaction'.tx] = transaction'
                /\ \A k \in DOMAIN transactions :
                      k # transaction'.tx => transactions'[k] = transactions[k]
       /\ (/\ Applied
           /\ Kind(transaction') \in DisputeFamily
           /\ transaction'.transaction_type.ref.some)
             => Kind(transaction'.transaction_type.ref.val) \in MoneyMovement]_vars

(* The ledger holds a Deposit and a Withdrawal and a Chargeback has been   *)
(* linked to the Withdrawal                                                *)
C17_Witness ==
    /\ DOMAIN transactions = {1, 2}
    /\ \E k \in {1, 2} : Kind(transactions[k]) = "Deposit"
    /\ Kind(transaction) = "Chargeback"
    /\ transaction.transaction_type.ref.some
    /\ Kind(transaction.transaction_type.ref.val) = "Withdrawal"

----------------------------------------------------------------------------
(* C18: when several Deposit or Withdrawal rows carry the same tx, the     *)
(* ledger holds the last of them that was read, and a Dispute, Resolve or  *)
(* Chargeback of that tx moves the amount of that last one.                *)

C18_MoneyAt(t, n) ==
    {k \in 1..n : /\ WellFormed(file[k])
                  /\ Kind(RecordOf(file[k])) \in MoneyMovement
                  /\ RecordOf(file[k]).tx = t}

C18_Last(t, n) ==
    CHOOSE j \in C18_MoneyAt(t, n) : \A k \in C18_MoneyAt(t, n) : k <= j

C18_OverwriteOnReuse ==
    /\ \A t \in TxIds :
          IF C18_MoneyAt(t, pos) = {}
          THEN t \notin DOMAIN transactions
          ELSE transactions[t] = RecordOf(file[C18_Last(t, pos)])
    /\ (/\ pos >= 1
        /\ WellFormed(file[pos])
        /\ Kind(transaction) \in DisputeFamily
        /\ C18_MoneyAt(transaction.tx, pos) # {})
       => LET c == transaction.client
              last == RecordOf(file[C18_Last(transaction.tx, pos)])
              a == amount(last)
              old == AccountOf(After(pos - 1), c)
              new == accounts[c]
          IN  /\ transaction.transaction_type.ref = Some(last)
              /\ Kind(transaction) = "Dispute" =>
                    new.held = old.held + a /\ new.available = old.available - a
              /\ Kind(transaction) = "Resolve" =>
                    new.held = old.held - a /\ new.available = old.available + a
              /\ Kind(transaction) = "Chargeback" =>
                    new.held = old.held - a /\ new.available = old.available - a

(* A withdrawal of 3 and then a deposit of 10 under tx 1, then a           *)
(* chargeback of tx 1: 10 is charged back                                  *)
C18_WitnessWithdrawal ==
    /\ pos = 3
    /\ file = <<W3, D10, Cb11>>
    /\ accounts[1] = Account(1, -3, -10, TRUE)

(* Deposits of 10 and of 1 under tx 1, then a dispute of tx 1: 1 is held   *)
C18_Witness ==
    /\ pos = 3
    /\ file[1] = D10
    /\ file[2] = D1
    /\ file[3] = Disp11
    /\ amount(transactions[1]) = 1
    /\ accounts[1] = Account(1, 10, 1, FALSE)

----------------------------------------------------------------------------
(* C19: a record changes no account but that of its own client: every      *)
(* other account is as it was, and a Dispute, Resolve or Chargeback whose  *)
(* tx is that of another client's record moves that record's amount in the *)
(* account of the record's own client, not in the other client's.          *)

C19_OwnAccountOnly ==
    [][Applied
       => LET c == transaction'.client
          IN  /\ DOMAIN accounts' = DOMAIN accounts \cup {c}
              /\ \A k \in DOMAIN accounts : k # c => accounts'[k] = accounts[k]
              /\ (/\ Kind(transaction') \in DisputeFamily
                  /\ transaction'.tx \in DOMAIN transactions
                  /\ transactions[transaction'.tx].client # c)
                 => LET ref == transactions[transaction'.tx]
                        old == AccountOf(accounts, c)
                    IN  /\ accounts'[c] =
                              update_transaction(old, transaction')
                        /\ accounts'[c].held # old.held <=> amount(ref) # 0
                        /\ ref.client \in DOMAIN accounts
                        /\ accounts'[ref.client] = accounts[ref.client]]_vars

(* Client 2 has disputed client 1's deposit of 1: the funds are held in    *)
(* client 2's account and client 1 keeps its own                           *)
C19_Witness ==
    /\ Kind(transaction) = "Dispute"
    /\ transaction.client = 2
    /\ transaction.transaction_type.ref.some
    /\ transaction.transaction_type.ref.val.client = 1
    /\ accounts[2] = Account(2, -1, 1, FALSE)
    /\ accounts[1] = Account(1, 1, 0, FALSE)

----------------------------------------------------------------------------
(* C20: a Dispute, Resolve or Chargeback whose tx is in the ledger moves   *)
(* the amount of the ledger's record, be it a Deposit or a Withdrawal and  *)
(* whatever was disputed before: a Resolve or Chargeback needs no earlier  *)
(* Dispute and a Dispute may be repeated, so held may become negative.     *)

C20_RefAmountOnly ==
    [][(/\ Applied
        /\ Kind(transaction') \in DisputeFamily
        /\ transaction'.tx \in DOMAIN transactions)
       => LET a == amount(transactions[transaction'.tx])
              old == AccountOf(accounts, transaction'.client)
              new == accounts'[transaction'.client]
          IN  CASE Kind(transaction') = "Dispute" ->
                      /\ new.held = old.held + a
                      /\ new.available = old.available - a
                      /\ new.locked = old.locked
                [] Kind(transaction') = "Resolve" ->
                      /\ new.held = old.held - a
                      /\ new.available = old.available + a
                      /\ new.locked = old.locked
                [] Kind(transaction') = "Chargeback" ->
                      /\ new.held = old.held - a
                      /\ new.available = old.available - a
                      /\ new.locked]_vars

(* A Resolve of a Withdrawal that was never disputed has left held         *)
(* negative                                                                *)
C20_Witness ==
    /\ Kind(transaction) = "Resolve"
    /\ transaction.transaction_type.ref.some
    /\ Kind(transaction.transaction_type.ref.val) = "Withdrawal"
    /\ amount(transaction.transaction_type.ref.val) > 0
    /\ accounts[transaction.client].held < 0
    /\ ~accounts[transaction.client].locked

(* A Dispute of the same tx has been applied twice *)
C20_WitnessRepeated ==
    /\ pos = 3
    /\ Kind(transaction) = "Dispute"
    /\ transaction.transaction_type.ref.some
    /\ amount(transaction.transaction_type.ref.val) = 1
    /\ accounts[transaction.client].held = 2

----------------------------------------------------------------------------
(* C21: a Dispute, Resolve or Chargeback read before any Deposit or        *)
(* Withdrawal of its tx changes nothing, and the Deposit or Withdrawal     *)
(* that arrives later only moves its own amount in available: the earlier  *)
(* record is not applied after the fact.  A Dispute, Resolve or Chargeback *)
(* read after it does move its amount.                                     *)

(* Row j is a dispute-family row whose tx no earlier row has put in the    *)
(* ledger                                                                  *)
C21_Early(j) ==
    /\ WellFormed(file[j])
    /\ Kind(RecordOf(file[j])) \in DisputeFamily
    /\ C18_MoneyAt(RecordOf(file[j]).tx, j) = {}

C21_NoBacktracking ==
    /\ \A j \in 1..pos :
          C21_Early(j) =>
              LET c == RecordOf(file[j]).client
              IN  /\ snaps[j][c] = AccountOf(After(j - 1), c)
                  /\ \A k \in DOMAIN After(j - 1) : snaps[j][k] = After(j - 1)[k]
    /\ (/\ pos >= 2
        /\ WellFormed(file[pos])
        /\ Kind(transaction) \in MoneyMovement
        /\ \E j \in 1..(pos - 1) :
              C21_Early(j) /\ RecordOf(file[j]).tx = transaction.tx)
       => LET c == transaction.client
              old == AccountOf(After(pos - 1), c)
              new == accounts[c]
              d == IF Kind(transaction) = "Deposit"
                   THEN amount(transaction) ELSE 0 - amount(transaction)
          IN  /\ new.available = old.available + d
              /\ new.held = old.held
              /\ new.locked = old.locked
    /\ (/\ pos >= 1
        /\ WellFormed(file[pos])
        /\ Kind(transaction) \in DisputeFamily
        /\ ~C21_Early(pos))
       => transaction.transaction_type.ref.some

(* A chargeback of tx 1 came before the deposit of 10 under tx 1: the      *)
(* account holds the deposit and is not locked                             *)
C21_Witness ==
    /\ pos = 2
    /\ file[1] = Cb11
    /\ file[2] = D10
    /\ accounts[1] = Account(1, 10, 0, FALSE)

(* The same chargeback read again after the deposit does act *)
C21_WitnessLater ==
    /\ pos = 3
    /\ file = <<Cb11, D10, Cb11>>
    /\ accounts[1] = Account(1, 0, -10, TRUE)

----------------------------------------------------------------------------
(* C22: a Deposit or Withdrawal row with an empty amount field is parsed   *)
(* with amount None, which is not Some(0); applied, it leaves available    *)
(* and held as they are and is stored in the ledger; a Dispute, Resolve or *)
(* Chargeback linked to it moves nothing, the Chargeback still locking the *)
(* account.                                                                *)

C22_AbsentAmountIsZero ==
    [][/\ \A raw \in MoneyRows :
             raw.amount = Empty =>
                 /\ deserialize(raw).ok
                 /\ RecordOf(raw).amount = None
                 /\ RecordOf(raw).amount # Some(0)
                 /\ amount(RecordOf(raw)) = 0
       /\ (/\ Applied
           /\ Kind(transaction') \in MoneyMovement
           /\ transaction'.amount = None)
          => LET c == transaction'.client
             IN  /\ accounts'[c] = AccountOf(accounts, c)
                 /\ transaction'.tx \in DOMAIN transactions'
                 /\ transactions'[transaction'.tx] = transaction'
                 /\ transactions'[transaction'.tx].amount = None
       /\ (/\ Applied
           /\ Kind(transaction') \in DisputeFamily
           /\ transaction'.tx \in DOMAIN transactions
           /\ transactions[transaction'.tx].amount = None)
          => LET c == transaction'.client
                 old == AccountOf(accounts, c)
                 new == accounts'[c]
             IN  /\ new.available = old.available
                 /\ new.held = old.held
                 /\ new.locked = (old.locked \/ Kind(transaction') = "Chargeback")]_vars

(* A Chargeback has been linked to a record with no amount: the account's  *)
(* funds are as they were and the account is locked                        *)
C22_Witness ==
    /\ pos = 3
    /\ Kind(transaction) = "Chargeback"
    /\ transaction.transaction_type.ref.some
    /\ transaction.transaction_type.ref.val.amount = None
    /\ transactions[transaction.tx].amount = None
    /\ accounts[transaction.client] = Account(transaction.client, 1, 0, TRUE)

----------------------------------------------------------------------------
(* C23: the amount a Dispute, Resolve or Chargeback record carries itself  *)
(* has no effect: records that differ in that amount only, be it absent,   *)
(* zero or positive, leave the same accounts and the same ledger, from any *)
(* state of the replay.                                                    *)

C23_OwnAmounts == {None, Some(0), Some(MaxAmount)}

C23_OwnAmountIgnored ==
    /\ \A ty \in {Dispute(None), Resolve(None), Chargeback(None)},
          c \in Clients, t \in TxIds, a \in C23_OwnAmounts :
          LET r == Transaction(ty, c, t, a)
              bare == Transaction(ty, c, t, None)
          IN  /\ apply_record(accounts, linked(r, transactions))
                    = apply_record(accounts, linked(bare, transactions))
              /\ ledger_insert(r, transactions) = transactions
    /\ (/\ pos = 2
        /\ Kind(transaction) = "Dispute"
        /\ transaction.transaction_type.ref.some
        /\ Kind(transaction.transaction_type.ref.val) = "Deposit"
        /\ transaction.transaction_type.ref.val.client = transaction.client)
       => /\ accounts[transaction.client].held
                = amount(transaction.transaction_type.ref.val)
          /\ accounts[transaction.client].available = 0

(* A Dispute carrying an amount other than that of the deposit it refers   *)
(* to has held the deposit's amount, not its own                           *)
C23_Witness ==
    /\ pos = 2
    /\ Kind(transaction) = "Dispute"
    /\ transaction.amount.some
    /\ transaction.transaction_type.ref.some
    /\ transaction.transaction_type.ref.val.client = transaction.client
    /\ Kind(transaction.transaction_type.ref.val) = "Deposit"
    /\ amount(transaction) # amount(transaction.transaction_type.ref.val)
    /\ accounts[transaction.client].held = amount(transaction.transaction_type.ref.val)
    /\ accounts[transaction.client].held # amount(transaction)

====
